---- MODULE Spec2Model ----
(***************************************************************************)
(* Backend process supervisor of src/frontend/src-tauri/src/lib.rs:        *)
(* the two statics BACKEND_PORT and BACKEND_CHILD, the setup closure, the  *)
(* relay task it spawns, the two commands and the window-event hook.       *)
(*                                                                         *)
(* Threads: the setup closure, the relay task (async runtime), any number  *)
(* of terminate_backend callers, the window-event handler, and the child   *)
(* process (environment) feeding the event channel rx.                     *)
(* BACKEND_CHILD is a Mutex<Option<CommandChild>>: every access is an      *)
(* acquire step followed by a body step that ends with the guard dropped.  *)
(* No code panics while holding the guard, so the mutex is never poisoned  *)
(* and every `if let Ok(mut guard) = BACKEND_CHILD.lock()` takes its       *)
(* Ok branch.                                                              *)
(***************************************************************************)
EXTENDS Integers, Sequences, FiniteSets, TLC

\* ------------------------------------------------------------- bounds
MaxEvents == 2          \* events the child emits in one run
MaxTerminate == 2       \* terminate_backend invocations in one run
MaxClose == 1           \* CloseRequested window events in one run

\* --------------------------------------------------- program constants
UnsetPort == 0          \* AtomicU16::new(0)
DefaultPort == 8000     \* get_backend_port: if port == 0 { 8000 }
FallbackPort == 8000    \* setup: pick_unused_port() == None => 8000

\* Ports pick_unused_port() may yield (it never yields 0: the port comes
\* from a successful bind).
PortChoices == {54321}
\* Outcomes of portpicker::pick_unused_port(): None is <<>>, Some(p) is <<p>>.
PickOutcomes == {<<>>} \cup {<<p>> : p \in PortChoices}

\* Byte lines the child writes: 97 is ASCII 'a', 255 is a byte that is
\* never valid in UTF-8; the line holds one of each.
Lines == {<<97, 255>>}
\* Error(String) payloads: "e".
ErrTexts == {<<101>>}
\* TerminatedPayload.code : Option<i32>; None is <<>>, Some(c) is <<c>>.
ExitCodes == {<<>>, <<0>>}

\* CommandEvent values the child can put on the channel.
CommandEvent ==
  [kind : {"Stdout", "Stderr"}, data : Lines]
    \cup [kind : {"Error"}, data : ErrTexts]
    \cup [kind : {"Terminated"}, data : ExitCodes]

Callers == 1..MaxTerminate

Free == <<"free", 0>>
SetupT == <<"setup", 0>>
RelayT == <<"relay", 0>>
HookT == <<"hook", 0>>
Cmd(t) == <<"cmd", t>>

VARIABLES
  mode,           \* "release" | "debug": cfg(debug_assertions), fixed at build
  setupPc,        \* position of the setup closure
  BACKEND_PORT,   \* static AtomicU16
  BACKEND_CHILD,  \* static Mutex<Option<CommandChild>>: "None" | "Some"
  mutex,          \* holder of BACKEND_CHILD's lock
  spawned,        \* command.spawn() returned Ok: the child process exists
  rx,             \* events sent by the child and not yet received
  closed,         \* the channel's senders are dropped
  relayPc,        \* "none" | "recv" | "lock" | "clear" | "exited"
  notes,          \* app_handle.emit calls so far, in order
  emitted,        \* history: every event the child has sent, in order
  tpc,            \* per terminate_backend call: "idle" | "held" | "done"
  tres,           \* per call: "none" | "ok" | "err" (the Result returned)
  tkill,          \* history, per call: "none" | "ok" | "failed", the
                  \*   outcome of the kill request the call issued, if any
  hookPc,         \* "idle" | "held"
  hookCount,      \* CloseRequested events handled so far
  hookOutcome,    \* "none" | "returned" | "panicked"
  hookKill,       \* history: "none" | "ok" | "failed", the outcome of the
                  \*   kill request a hook invocation issued, if any
  kills,          \* child.kill() requests issued so far
  picked,         \* history: "unset" | "none" | "some" (pick_unused_port)
  clears,         \* history: Present -> Empty transitions of the slot
  clearedBy,      \* history: "none" | "cmd" | "hook" | "relay"
  allocated,      \* history: the port setup stored (0 before it does)
  lastGet,        \* history: the latest get_backend_port call, as a record
  termFirst,      \* history: Terminated was sent before any terminate call
  termAfterKill   \* history: Terminated was sent after a successful kill

vars == <<mode, setupPc, BACKEND_PORT, BACKEND_CHILD, mutex, spawned, rx,
          closed, relayPc, notes, emitted, tpc, tres, tkill, hookPc,
          hookCount, hookOutcome, hookKill, kills, picked, clears,
          clearedBy, allocated, lastGet, termFirst, termAfterKill>>

registry == <<BACKEND_CHILD, mutex, kills, clears, clearedBy>>
childEnv == <<spawned, rx, closed, emitted, termFirst, termAfterKill>>
relayVars == <<relayPc, notes>>
cmdVars == <<tpc, tres, tkill>>
hookVars == <<hookPc, hookCount, hookOutcome, hookKill>>
setupVars == <<mode, setupPc, picked, allocated>>
\* lastGet before any call: ret is no u16 value.
NoGet == [alloc |-> 0, spawned |-> FALSE, ret |-> -1]

Init ==
  /\ mode \in {"release", "debug"}
  /\ setupPc = "start"
  /\ BACKEND_PORT = UnsetPort
  /\ BACKEND_CHILD = "None"
  /\ mutex = Free
  /\ spawned = FALSE
  /\ rx = <<>>
  /\ closed = FALSE
  /\ relayPc = "none"
  /\ notes = <<>>
  /\ emitted = <<>>
  /\ tpc = [t \in Callers |-> "idle"]
  /\ tres = [t \in Callers |-> "none"]
  /\ tkill = [t \in Callers |-> "none"]
  /\ hookPc = "idle"
  /\ hookCount = 0
  /\ hookOutcome = "none"
  /\ hookKill = "none"
  /\ kills = 0
  /\ picked = "unset"
  /\ clears = 0
  /\ clearedBy = "none"
  /\ allocated = 0
  /\ lastGet = NoGet
  /\ termFirst = FALSE
  /\ termAfterKill = FALSE

\* The host's event loop is serving requests.  It runs the setup closure
\* first: commands and window events are dispatched once setup has returned
\* Ok(()); after an Err, run() panics at its expect().
Running == setupPc = "done"

\* ------------------------------------------------------------- setup
\* Variant of AllocatedPort: a failed pick yields 0 (unwrap_or_default).
AllocatedPortZero(pick) == IF pick = <<>> THEN UnsetPort ELSE pick[1]

\* Port chosen by the match on pick_unused_port().
AllocatedPort(pick) == IF pick = <<>> THEN FallbackPort ELSE pick[1]

\* Variant of SetupStorePort: the block is not under cfg(not(debug_assertions))
\* and runs in a development build too.
SetupStorePortAnyMode ==
  /\ setupPc = "start"
  /\ \E pick \in PickOutcomes :
       /\ BACKEND_PORT' = AllocatedPort(pick)
       /\ allocated' = AllocatedPort(pick)
       /\ picked' = IF pick = <<>> THEN "none" ELSE "some"
  /\ setupPc' = "sidecar"
  /\ UNCHANGED <<mode, registry, childEnv, relayVars, cmdVars, hookVars, lastGet>>

\* Variant of SetupStorePort: the port is picked and logged but the
\* BACKEND_PORT.store call is missing.
SetupStorePortSkipsStore ==
  /\ mode = "release"
  /\ setupPc = "start"
  /\ \E pick \in PickOutcomes :
       /\ allocated' = AllocatedPort(pick)
       /\ picked' = IF pick = <<>> THEN "none" ELSE "some"
  /\ setupPc' = "sidecar"
  /\ UNCHANGED <<mode, BACKEND_PORT, registry, childEnv, relayVars, cmdVars,
                 hookVars, lastGet>>

\* let port = match pick_unused_port() {..}; BACKEND_PORT.store(port)
SetupStorePort ==
  /\ mode = "release"
  /\ setupPc = "start"
  /\ \E pick \in PickOutcomes :
       /\ BACKEND_PORT' = AllocatedPort(pick)
       /\ allocated' = AllocatedPort(pick)
       /\ picked' = IF pick = <<>> THEN "none" ELSE "some"
  /\ setupPc' = "sidecar"
  /\ UNCHANGED <<mode, registry, childEnv, relayVars, cmdVars, hookVars, lastGet>>

\* Variant of SetupSidecar: shell.sidecar("backend")? returns the Err from
\* the setup closure instead of logging it.
SetupSidecarPropagates ==
  /\ setupPc = "sidecar"
  /\ \E ok \in BOOLEAN : setupPc' = IF ok THEN "spawn" ELSE "failed"
  /\ UNCHANGED <<mode, picked, allocated, BACKEND_PORT, registry, childEnv,
                 relayVars, cmdVars, hookVars, lastGet>>

\* match shell.sidecar("backend") { Ok(command) => .., Err(e) => log }
SetupSidecar ==
  /\ setupPc = "sidecar"
  /\ \E ok \in BOOLEAN : setupPc' = IF ok THEN "spawn" ELSE "done"
  /\ UNCHANGED <<mode, picked, allocated, BACKEND_PORT, registry, childEnv, relayVars,
                 cmdVars, hookVars, lastGet>>

\* match command.spawn() { Ok((rx, child)) => .., Err(e) => log }
SetupSpawn ==
  /\ setupPc = "spawn"
  /\ \E ok \in BOOLEAN :
       /\ spawned' = ok
       /\ setupPc' = IF ok THEN "lock" ELSE "done"
  /\ UNCHANGED <<mode, picked, allocated, BACKEND_PORT, registry, rx, closed, emitted,
                 termFirst, termAfterKill, relayVars, cmdVars, hookVars,
                 lastGet>>

\* if let Ok(mut guard) = BACKEND_CHILD.lock()
SetupLock ==
  /\ setupPc = "lock"
  /\ mutex = Free
  /\ mutex' = SetupT
  /\ setupPc' = "store"
  /\ UNCHANGED <<mode, picked, allocated, BACKEND_PORT, BACKEND_CHILD, kills, clears,
                 clearedBy, childEnv, relayVars, cmdVars, hookVars, lastGet>>

\* *guard = Some(child); the guard is dropped
SetupStoreChild ==
  /\ setupPc = "store"
  /\ BACKEND_CHILD' = "Some"
  /\ mutex' = Free
  /\ setupPc' = "relay"
  /\ UNCHANGED <<mode, picked, allocated, BACKEND_PORT, kills, clears, clearedBy,
                 childEnv, relayVars, cmdVars, hookVars, lastGet>>

\* Variant of SetupSpawnRelay: the task is spawned right after spawn()
\* returned, before the handle is stored.
SetupSpawnRelayEarly ==
  /\ \/ /\ setupPc = "lock"
        /\ relayPc = "none"
        /\ relayPc' = "recv"
        /\ setupPc' = setupPc
     \/ /\ setupPc = "relay"
        /\ relayPc' = IF relayPc = "none" THEN "recv" ELSE relayPc
        /\ setupPc' = "done"
  /\ UNCHANGED <<mode, picked, allocated, BACKEND_PORT, registry, childEnv,
                 notes, cmdVars, hookVars, lastGet>>

\* tauri::async_runtime::spawn(async move { .. }); then Ok(())
SetupSpawnRelay ==
  /\ setupPc = "relay"
  /\ relayPc' = "recv"
  /\ setupPc' = "done"
  /\ UNCHANGED <<mode, picked, allocated, BACKEND_PORT, registry, childEnv, notes,
                 cmdVars, hookVars, lastGet>>

\* Development build: the log plugin is registered (its `?` may return Err
\* from setup), two lines are logged, Ok(()).
SetupDebug ==
  /\ mode = "debug"
  /\ setupPc = "start"
  /\ \E ok \in BOOLEAN : setupPc' = IF ok THEN "done" ELSE "failed"
  /\ UNCHANGED <<mode, picked, allocated, BACKEND_PORT, registry, childEnv, relayVars,
                 cmdVars, hookVars, lastGet>>

\* ------------------------------------------------------ child process
HasTerminated(s) == \E i \in 1..Len(s) : s[i].kind = "Terminated"

\* The child's execution environment sends one event on the channel.  A
\* process terminates once: at most one Terminated event.
ChildEmit ==
  /\ spawned
  /\ ~closed
  /\ Len(emitted) < MaxEvents
  /\ \E e \in CommandEvent :
       /\ e.kind = "Terminated" => ~HasTerminated(emitted)
       /\ rx' = Append(rx, e)
       /\ emitted' = Append(emitted, e)
       /\ termFirst' = IF e.kind = "Terminated"
                         THEN \A t \in Callers : tpc[t] = "idle"
                         ELSE termFirst
       /\ termAfterKill' = IF e.kind = "Terminated"
                             THEN \E t \in Callers : tkill[t] = "ok"
                             ELSE termAfterKill
  /\ UNCHANGED <<spawned, closed, setupVars, BACKEND_PORT, registry,
                 relayVars, cmdVars, hookVars, lastGet>>

\* The child is reaped and every sender of the channel is dropped.
ChildClose ==
  /\ spawned
  /\ ~closed
  /\ closed' = TRUE
  /\ UNCHANGED <<spawned, rx, emitted, termFirst, termAfterKill, setupVars,
                 BACKEND_PORT, registry, relayVars, cmdVars, hookVars, lastGet>>

\* -------------------------------------------------------------- relay
ReplacementChar == 65533   \* U+FFFD

\* String::from_utf8_lossy(&line).to_string(), on lines whose bytes are
\* ASCII (< 128) or bytes that occur in no UTF-8 encoding (such as 255):
\* each ASCII byte is its character, each invalid byte becomes U+FFFD.
from_utf8_lossy(line) ==
  [i \in 1..Len(line) |-> IF line[i] < 128 THEN line[i] ELSE ReplacementChar]

\* "Process error: "
ProcessErrorPrefix ==
  <<80, 114, 111, 99, 101, 115, 115, 32, 101, 114, 114, 111, 114, 58, 32>>

\* Variant of EmitOf: the Stderr arm emits on the Stdout arm's channel.
EmitOfStderrAsLog(e) ==
  CASE e.kind \in {"Stdout", "Stderr"} ->
         [name |-> "py-log", payload |-> from_utf8_lossy(e.data)]
    [] e.kind = "Error" ->
         [name |-> "py-error", payload |-> ProcessErrorPrefix \o e.data]
    [] e.kind = "Terminated" ->
         [name |-> "backend-terminated", payload |-> e.data]

\* Variant of EmitOf: the Terminated arm emits without the exit code.
EmitOfNoCode(e) ==
  CASE e.kind = "Stdout" ->
         [name |-> "py-log", payload |-> from_utf8_lossy(e.data)]
    [] e.kind = "Stderr" ->
         [name |-> "py-error", payload |-> from_utf8_lossy(e.data)]
    [] e.kind = "Error" ->
         [name |-> "py-error", payload |-> ProcessErrorPrefix \o e.data]
    [] e.kind = "Terminated" ->
         [name |-> "backend-terminated", payload |-> <<>>]

\* The app_handle.emit(name, payload) call of each match arm.
EmitOf(e) ==
  CASE e.kind = "Stdout" ->
         [name |-> "py-log", payload |-> from_utf8_lossy(e.data)]
    [] e.kind = "Stderr" ->
         [name |-> "py-error", payload |-> from_utf8_lossy(e.data)]
    [] e.kind = "Error" ->
         [name |-> "py-error", payload |-> ProcessErrorPrefix \o e.data]
    [] e.kind = "Terminated" ->
         [name |-> "backend-terminated", payload |-> e.data]

\* The relay's position after the match arm of event e has emitted.
AfterEmit(e) == IF e.kind = "Terminated" THEN "lock" ELSE "recv"

\* Variant of RelayRecv: the Terminated arm goes to the lock without
\* having emitted "backend-terminated".
RelayRecvDefersEmit ==
  /\ relayPc = "recv"
  /\ rx # <<>>
  /\ rx' = Tail(rx)
  /\ notes' = IF Head(rx).kind = "Terminated"
                THEN notes
                ELSE Append(notes, EmitOf(Head(rx)))
  /\ relayPc' = AfterEmit(Head(rx))
  /\ UNCHANGED <<spawned, closed, emitted, termFirst, termAfterKill,
                 setupVars, BACKEND_PORT, registry, cmdVars, hookVars, lastGet>>

\* while let Some(event) = rx.recv().await { match event { .. emit .. } }
RelayRecv ==
  /\ relayPc = "recv"
  /\ rx # <<>>
  /\ rx' = Tail(rx)
  /\ notes' = Append(notes, EmitOf(Head(rx)))
  /\ relayPc' = AfterEmit(Head(rx))
  /\ UNCHANGED <<spawned, closed, emitted, termFirst, termAfterKill,
                 setupVars, BACKEND_PORT, registry, cmdVars, hookVars, lastGet>>

\* Terminated arm: if let Ok(mut guard) = BACKEND_CHILD.lock()
RelayLock ==
  /\ relayPc = "lock"
  /\ mutex = Free
  /\ mutex' = RelayT
  /\ relayPc' = "clear"
  /\ UNCHANGED <<notes, BACKEND_CHILD, kills, clears, clearedBy, childEnv,
                 setupVars, BACKEND_PORT, cmdVars, hookVars, lastGet>>

\* Variant of RelayAssign: the Terminated arm leaves the slot as it is.
RelayAssignKeeps(slot) == slot

\* *guard = None
RelayAssign(slot) == "None"

\* History of the slot's Present -> Empty transitions, for a step that
\* leaves the slot as BACKEND_CHILD'.
Cleared(n) ==
  IF BACKEND_CHILD = "Some" /\ BACKEND_CHILD' = "None" THEN n + 1 ELSE n
ClearedBy(who) ==
  IF BACKEND_CHILD = "Some" /\ BACKEND_CHILD' = "None" THEN who ELSE clearedBy

\* Variant of RelayClear: the guard is bound outside the loop body and is
\* still held when the task awaits the next event.
RelayClearKeepsGuard ==
  /\ relayPc = "clear"
  /\ BACKEND_CHILD' = RelayAssign(BACKEND_CHILD)
  /\ clears' = Cleared(clears)
  /\ clearedBy' = ClearedBy("relay")
  /\ relayPc' = "recv"
  /\ UNCHANGED <<mutex, notes, kills, childEnv, setupVars, BACKEND_PORT,
                 cmdVars, hookVars, lastGet>>

\* Terminated arm: *guard = None; the guard is dropped.  Dropping a
\* CommandChild sends no kill request.
RelayClear ==
  /\ relayPc = "clear"
  /\ BACKEND_CHILD' = RelayAssign(BACKEND_CHILD)
  /\ clears' = Cleared(clears)
  /\ clearedBy' = ClearedBy("relay")
  /\ mutex' = Free
  /\ relayPc' = "recv"
  /\ UNCHANGED <<notes, kills, childEnv, setupVars, BACKEND_PORT, cmdVars,
                 hookVars, lastGet>>

\* Variant of RelayExit: the end of the stream is emitted as a "py-error".
RelayExitReportsError ==
  /\ relayPc = "recv"
  /\ rx = <<>>
  /\ closed
  /\ relayPc' = "exited"
  /\ notes' = Append(notes, [name |-> "py-error", payload |-> ProcessErrorPrefix])
  /\ UNCHANGED <<childEnv, setupVars, BACKEND_PORT, registry, cmdVars,
                 hookVars, lastGet>>

\* rx.recv() yields None: the channel is closed and drained; the task ends.
RelayExit ==
  /\ relayPc = "recv"
  /\ rx = <<>>
  /\ closed
  /\ relayPc' = "exited"
  /\ UNCHANGED <<notes, childEnv, setupVars, BACKEND_PORT, registry, cmdVars,
                 hookVars, lastGet>>

Relay ==
  \/ RelayRecv
  \/ RelayLock
  \/ RelayClear
  \/ RelayExit

\* ----------------------------------------------------------- commands
\* Variant of get_backend_port: the loaded value is returned as it is.
get_backend_port_raw(port) == port

\* Variant of get_backend_port: the default is returned whatever is stored.
get_backend_port_fixed(port) == DefaultPort

\* get_backend_port's return value for a loaded port.
get_backend_port(port) == IF port = UnsetPort THEN DefaultPort ELSE port

\* #[tauri::command] fn get_backend_port() -> u16
GetBackendPort ==
  /\ Running
  /\ lastGet' = [alloc |-> allocated, spawned |-> spawned,
                 ret |-> get_backend_port(BACKEND_PORT)]
  /\ UNCHANGED <<setupVars, BACKEND_PORT, registry, childEnv, relayVars,
                 cmdVars, hookVars>>

\* Variant of Take: the handle is read (as_ref) and stays in the slot.
TakeLeavesHandle(slot) == slot

\* guard.take(): the slot's content afterwards.
Take(slot) == "None"

\* History: the outcome of the kill request issued on a taken handle.
KillOutcome(found, killOk) ==
  IF ~found THEN "none" ELSE IF killOk THEN "ok" ELSE "failed"

\* Variant of TerminateResult: an empty slot is reported as an error.
TerminateResultErrWhenEmpty(found, killOk) ==
  IF ~found \/ ~killOk THEN "err" ELSE "ok"

\* Variant of TerminateResult: the kill's Err is discarded (let _ =).
TerminateResultSwallows(found, killOk) == "ok"

\* Variant of TerminateResult: the kill's outcome is tested the wrong way
\* round.
TerminateResultInverted(found, killOk) ==
  IF found /\ killOk THEN "err" ELSE "ok"

\* terminate_backend's Result: the `?` on child.kill() returns the Err.
TerminateResult(found, killOk) == IF found /\ ~killOk THEN "err" ELSE "ok"

\* if let Ok(mut guard) = BACKEND_CHILD.lock().  Calls are numbered in the
\* order in which they acquire the lock.
TerminateLock(t) ==
  /\ Running
  /\ tpc[t] = "idle"
  /\ t > 1 => tpc[t - 1] # "idle"
  /\ mutex = Free
  /\ mutex' = Cmd(t)
  /\ tpc' = [tpc EXCEPT ![t] = "held"]
  /\ UNCHANGED <<tres, tkill, BACKEND_CHILD, kills, clears, clearedBy,
                 childEnv, setupVars, BACKEND_PORT, relayVars, hookVars,
                 lastGet>>

\* if let Some(child) = guard.take() { child.kill().map_err(..)?; } Ok(())
\* The guard is dropped on both the early return and the normal one.
TerminateBody(t) ==
  /\ tpc[t] = "held"
  /\ \E killOk \in BOOLEAN :
       LET found == BACKEND_CHILD = "Some" IN
       /\ BACKEND_CHILD' = Take(BACKEND_CHILD)
       /\ kills' = IF found THEN kills + 1 ELSE kills
       /\ clears' = Cleared(clears)
       /\ clearedBy' = ClearedBy("cmd")
       /\ tkill' = [tkill EXCEPT ![t] = KillOutcome(found, killOk)]
       /\ tres' = [tres EXCEPT ![t] = TerminateResult(found, killOk)]
  /\ mutex' = Free
  /\ tpc' = [tpc EXCEPT ![t] = "done"]
  /\ UNCHANGED <<childEnv, setupVars, BACKEND_PORT, relayVars, hookVars,
                 lastGet>>

\* --------------------------------------------------------------- hook
\* on_window_event, CloseRequested: if let Ok(mut guard) = BACKEND_CHILD.lock()
HookLock ==
  /\ Running
  /\ hookPc = "idle"
  /\ hookCount < MaxClose
  /\ mutex = Free
  /\ mutex' = HookT
  /\ hookPc' = "held"
  /\ UNCHANGED <<hookCount, hookOutcome, hookKill, BACKEND_CHILD, kills,
                 clears, clearedBy, childEnv, setupVars, BACKEND_PORT,
                 relayVars, cmdVars, lastGet>>

\* Variant of HookOutcome: child.kill().unwrap() panics on a failed kill.
HookOutcomeUnwraps(found, killOk) ==
  IF found /\ ~killOk THEN "panicked" ELSE "returned"

\* What the handler does with child.kill()'s Result: `let _ =` discards it.
HookOutcome(found, killOk) == "returned"

\* if let Some(child) = guard.take() { let _ = child.kill(); }
HookBody ==
  /\ hookPc = "held"
  /\ \E killOk \in BOOLEAN :
       LET found == BACKEND_CHILD = "Some" IN
       /\ BACKEND_CHILD' = Take(BACKEND_CHILD)
       /\ kills' = IF found THEN kills + 1 ELSE kills
       /\ clears' = Cleared(clears)
       /\ clearedBy' = ClearedBy("hook")
       /\ hookKill' = IF found THEN KillOutcome(found, killOk) ELSE hookKill
       /\ hookOutcome' = HookOutcome(found, killOk)
  /\ mutex' = Free
  /\ hookPc' = "idle"
  /\ hookCount' = hookCount + 1
  /\ UNCHANGED <<childEnv, setupVars, BACKEND_PORT, relayVars, cmdVars,
                 lastGet>>

\* ------------------------------------------------------ specification
Next ==
  \/ SetupStorePort
  \/ SetupSidecar
  \/ SetupSpawn
  \/ SetupLock
  \/ SetupStoreChild
  \/ SetupSpawnRelay
  \/ SetupDebug
  \/ ChildEmit
  \/ ChildClose
  \/ RelayRecv
  \/ RelayLock
  \/ RelayClear
  \/ RelayExit
  \/ GetBackendPort
  \/ \E t \in Callers : TerminateLock(t)
  \/ \E t \in Callers : TerminateBody(t)
  \/ HookLock
  \/ HookBody

Spec == Init /\ [][Next]_vars

\* Fair scheduling of the relay task by the async runtime: a relay step
\* that stays possible is eventually taken.
FairSpec == Spec /\ WF_vars(Relay)

\* FairSpec, and every thread that holds the registry's lock goes on to
\* drop it: a critical section contains no suspension point.
LockFairSpec ==
  /\ FairSpec
  /\ WF_vars(\E t \in Callers : TerminateBody(t))
  /\ WF_vars(HookBody)
  /\ WF_vars(SetupStoreChild)

\* ============================================================= claims
TookByCmd == {t \in Callers : tkill[t] # "none"}
TerminateDone == \E t \in Callers : tpc[t] = "done"
HookDone == hookCount >= 1 /\ hookPc = "idle"
\* The relay has finished the Terminated arm (emit, then clear).
RelayHandledTerminated ==
  /\ relayPc \in {"recv", "exited"}
  /\ \E i \in 1..Len(notes) : notes[i].name = "backend-terminated"

\* C1: over a whole run at most one kill request is issued, whatever the
\* number and interleaving of terminate_backend calls and close events; and
\* when a terminate_backend call and a shutdown-hook invocation have both
\* run on a registry that held the handle (the relay did not clear it
\* first), exactly one kill request has been issued.
C1_ExactlyOneKill ==
  /\ kills <= 1
  /\ (spawned /\ TerminateDone /\ HookDone /\ clearedBy # "relay") => kills = 1

\* C1 witness: the hook won the race, a terminate call ran too, one kill.
C1_Witness ==
  /\ TerminateDone
  /\ HookDone
  /\ hookKill # "none"
  /\ kills = 1

\* C2: of two terminate_backend calls in sequence, once the first has taken
\* the handle (and issued its kill request, successful or not) the registry
\* is empty, and the second issues no kill request and returns Ok(()).
C2_SecondCallVacuous ==
  /\ \A u \in Callers : tkill[u] # "none" => (BACKEND_CHILD = "None" /\ kills = 1)
  /\ \A u, t \in Callers :
       (u < t /\ tkill[u] # "none" /\ tpc[t] = "done")
         => (tkill[t] = "none" /\ tres[t] = "ok")

\* C2 witness: the first call's kill failed, the second call returned Ok.
C2_Witness ==
  /\ tkill[1] = "failed"
  /\ tres[1] = "err"
  /\ tpc[2] = "done"
  /\ tres[2] = "ok"
  /\ kills = 1

C4_Original ==
  (lastGet # NoGet /\ ~lastGet.spawned) => lastGet.ret = DefaultPort

\* C4 amended: every get_backend_port call made while startup has stored no
\* port (the stored value is 0) returns 8000, and no child has been launched
\* then; once startup has stored a port, which it does before it attempts
\* the launch, the call returns that port although no child was launched.
C4_UnsetGivesDefault ==
  /\ (lastGet # NoGet /\ lastGet.alloc = 0)
       => (lastGet.ret = DefaultPort /\ ~lastGet.spawned)
  /\ (lastGet # NoGet /\ lastGet.alloc # 0) => lastGet.ret = lastGet.alloc

\* C4 witness: a call with no port stored returned 8000.
C4_Witness ==
  /\ lastGet # NoGet
  /\ lastGet.alloc = 0
  /\ lastGet.ret = DefaultPort

\* C5: once startup has stored the allocated port P, the stored port stays
\* P in every later state and every get_backend_port call returns P.
C5_PortStable ==
  /\ allocated # 0 => BACKEND_PORT = allocated
  /\ lastGet.alloc # 0 => (lastGet.ret = lastGet.alloc /\ lastGet.alloc = allocated)

\* C5 witness: P = 54321 returned by a call, in a run with a launch, a kill
\* request, a Terminated event handled by the relay and a close event.
C5_Witness ==
  /\ lastGet.alloc = 54321
  /\ lastGet.ret = 54321
  /\ lastGet.spawned
  /\ kills = 1
  /\ RelayHandledTerminated
  /\ HookDone
  /\ TerminateDone

\* The launch failed during startup: sidecar() or spawn() returned Err.
LaunchFailed == mode = "release" /\ setupPc = "done" /\ ~spawned

\* C6: a production startup never fails, also when the launch fails; after
\* a failed launch the stored port is the allocated one, the slot is empty,
\* no relay task exists (and nothing is emitted), no kill request is ever
\* issued, every terminate_backend call returns Ok(()) and every
\* get_backend_port call returns the allocated port.
C6_LaunchFailure ==
  /\ mode = "release" => setupPc # "failed"
  /\ LaunchFailed =>
       /\ allocated # 0
       /\ BACKEND_PORT = allocated
       /\ BACKEND_CHILD = "None"
       /\ relayPc = "none"
       /\ notes = <<>>
       /\ kills = 0
       /\ \A t \in Callers : tres[t] \in {"none", "ok"}
       /\ lastGet # NoGet => lastGet.ret = allocated

\* C6 witness: after a failed launch, both commands and the hook have run.
C6_Witness ==
  /\ LaunchFailed
  /\ picked = "some"
  /\ lastGet.ret = 54321
  /\ \A t \in Callers : tres[t] = "ok"
  /\ HookDone

\* C7: a terminate_backend call whose kill request failed returned an
\* error, and the slot is empty in every state from then on: with at most
\* one kill request per run, no later call or hook retries the kill.
C7_FailedKillConsumesHandle ==
  \A t \in Callers :
    tkill[t] = "failed" =>
      /\ tres[t] = "err"
      /\ BACKEND_CHILD = "None"
      /\ kills = 1
      /\ hookKill = "none"
      /\ \A u \in Callers : u # t => tkill[u] = "none"

\* C7 witness: the kill failed, and a later call and a hook both ran.
C7_Witness ==
  /\ tkill[1] = "failed"
  /\ tpc[2] = "done"
  /\ HookDone
  /\ kills = 1

\* C8: the hook takes the handle if present and issues exactly one kill
\* request on it, issues none if absent, never produces an error outcome
\* (also when the kill fails), and leaves the slot empty.
C8_HookTakeKill ==
  /\ hookOutcome \in {"none", "returned"}
  /\ HookDone => (hookOutcome = "returned" /\ BACKEND_CHILD = "None")
  /\ hookKill # "none" => (kills = 1 /\ clearedBy = "hook" /\ TookByCmd = {})
  /\ hookKill = "none" => (clearedBy # "hook" /\ kills = Cardinality(TookByCmd))

\* C8 witness: the hook took the handle, its kill failed, the hook returned.
C8_Witness ==
  /\ HookDone
  /\ hookKill = "failed"
  /\ hookOutcome = "returned"
  /\ BACKEND_CHILD = "None"

\* The notification n is the one the claim gives for event e: the channel
\* of e's kind; for a line, text of the line's length that keeps every
\* ASCII byte; for a process error, a message ending with the error's text;
\* for Terminated, the same exit code.
NotificationFor(e, n) ==
  CASE e.kind = "Stdout" ->
         /\ n.name = "py-log"
         /\ Len(n.payload) = Len(e.data)
         /\ \A i \in 1..Len(e.data) : e.data[i] < 128 => n.payload[i] = e.data[i]
    [] e.kind = "Stderr" ->
         /\ n.name = "py-error"
         /\ Len(n.payload) = Len(e.data)
         /\ \A i \in 1..Len(e.data) : e.data[i] < 128 => n.payload[i] = e.data[i]
    [] e.kind = "Error" ->
         /\ n.name = "py-error"
         /\ Len(n.payload) >= Len(e.data)
         /\ SubSeq(n.payload, Len(n.payload) - Len(e.data) + 1, Len(n.payload)) = e.data
    [] e.kind = "Terminated" ->
         /\ n.name = "backend-terminated"
         /\ n.payload = e.data

\* C9: the notifications emitted are, in order, the images of the events
\* received, which are a prefix of the events emitted; the events not yet
\* received are the rest of them, in order; when the relay has ended every
\* emitted event was relayed.
C9_RelayImage ==
  /\ Len(notes) + Len(rx) = Len(emitted)
  /\ rx = SubSeq(emitted, Len(notes) + 1, Len(emitted))
  /\ \A i \in 1..Len(notes) : NotificationFor(emitted[i], notes[i])
  /\ (relayPc = "exited" /\ closed) => rx = <<>>

\* C9 witness: a stdout line with an invalid UTF-8 byte, then Terminated(Some(0)), both
\* relayed, the relay ended.
C9_Witness ==
  /\ relayPc = "exited"
  /\ Len(notes) = 2
  /\ emitted[1] = [kind |-> "Stdout", data |-> <<97, 255>>]
  /\ emitted[2] = [kind |-> "Terminated", data |-> <<0>>]
  /\ notes[1] = [name |-> "py-log", payload |-> <<97, ReplacementChar>>]
  /\ notes[2] = [name |-> "backend-terminated", payload |-> <<0>>]

TerminatedSent(c) ==
  \E i \in 1..Len(emitted) : emitted[i] = [kind |-> "Terminated", data |-> c]
TerminatedNotified(c) ==
  \E i \in 1..Len(notes) :
    notes[i] = [name |-> "backend-terminated", payload |-> c]
KillSucceeded == \E t \in Callers : tkill[t] = "ok"

\* C10: under fair scheduling of the relay, once a terminate_backend call
\* has taken the handle and its kill has succeeded, a Terminated(code) the
\* child then emits leads to a "backend-terminated" notification carrying
\* that code; and from the call on the slot is empty in every state.
C10_TerminatedNotified ==
  /\ \A c \in ExitCodes :
       (termAfterKill /\ TerminatedSent(c)) ~> TerminatedNotified(c)
  /\ [](KillSucceeded => BACKEND_CHILD = "None")

\* C10 witness: kill succeeded, Terminated(Some(0)) was emitted afterwards,
\* the relay has notified it and finished its clearing.
C10_Witness ==
  /\ termAfterKill
  /\ TerminatedSent(<<0>>)
  /\ TerminatedNotified(<<0>>)
  /\ RelayHandledTerminated
  /\ BACKEND_CHILD = "None"

\* C11: in a development build no port is allocated and nothing is
\* launched: in every reachable state the stored port is unset, the slot is
\* empty and no relay task exists; every get_backend_port call returns 8000
\* and no terminate_backend call or hook invocation issues a kill request
\* or ends in an error.
C11_DevelopmentMode ==
  mode = "debug" =>
    /\ BACKEND_PORT = UnsetPort
    /\ picked = "unset"
    /\ ~spawned
    /\ BACKEND_CHILD = "None"
    /\ relayPc = "none"
    /\ kills = 0
    /\ lastGet # NoGet => lastGet.ret = DefaultPort
    /\ \A t \in Callers : tres[t] \in {"none", "ok"} /\ tkill[t] = "none"
    /\ hookKill = "none" /\ hookOutcome \in {"none", "returned"}

\* C11 witness: a development build after a get_backend_port call, two
\* terminate_backend calls and a close event.
C11_Witness ==
  /\ mode = "debug"
  /\ lastGet.ret = DefaultPort
  /\ \A t \in Callers : tres[t] = "ok"
  /\ HookDone

\* C12: when pick_unused_port() finds no port, startup does not fail: 8000
\* is stored as the assigned port, startup goes on to the launch attempt,
\* and every get_backend_port call returns 8000.
C12_AllocationFallback ==
  picked = "none" =>
    /\ BACKEND_PORT = FallbackPort
    /\ setupPc \in {"sidecar", "spawn", "lock", "store", "relay", "done"}
    /\ lastGet # NoGet => lastGet.ret = FallbackPort

\* C12 witness: allocation failed, the launch was attempted and succeeded,
\* a get_backend_port call returned 8000.
C12_Witness ==
  /\ picked = "none"
  /\ spawned
  /\ BACKEND_CHILD = "Some"
  /\ lastGet.ret = 8000

\* The actors that moved the slot from Present to Empty.
Takers ==
  Cardinality(TookByCmd)
    + (IF hookKill # "none" THEN 1 ELSE 0)
    + (IF clearedBy = "relay" THEN 1 ELSE 0)

\* C13: the slot is populated only by setup's store after a successful
\* spawn, which happens once and on a slot never emptied before; it goes
\* from Present to Empty at most once, by exactly one of terminate_backend,
\* the hook and the relay; once emptied it is empty in every later state,
\* and every actor that comes later issues no kill request and returns no
\* error.
C13_SlotLifecycle ==
  /\ [](/\ clears <= 1
        /\ Takers = clears
        /\ clears = 1 <=> clearedBy # "none"
        /\ clears = 1 => BACKEND_CHILD = "None"
        /\ BACKEND_CHILD = "Some" => (spawned /\ setupPc \in {"relay", "done"}))
  /\ [][(BACKEND_CHILD = "None" /\ BACKEND_CHILD' = "Some")
          => (spawned /\ clears = 0 /\ setupPc = "store" /\ setupPc' = "relay")]_vars
  /\ [][clears = 1 =>
          /\ BACKEND_CHILD' = "None"
          /\ kills' = kills
          /\ hookOutcome' \in {"none", "returned"}
          /\ \A t \in Callers : tres'[t] # tres[t] => tres'[t] = "ok"]_vars

\* C13 witness: the hook emptied the slot; afterwards a terminate_backend
\* call returned Ok and the relay handled Terminated, both on an empty slot.
C13_Witness ==
  /\ clearedBy = "hook"
  /\ clears = 1
  /\ kills = 1
  /\ TerminateDone
  /\ \A t \in Callers : tres[t] # "err"
  /\ RelayHandledTerminated
  /\ BACKEND_CHILD = "None"

\* The step by which the lock's holder drops the guard.
HolderCanRelease ==
  ENABLED (RelayClear \/ HookBody \/ SetupStoreChild
             \/ \E t \in Callers : TerminateBody(t))

\* C14: the lock is held exactly by an actor inside its critical section
\* (the relay only between receiving Terminated and awaiting the next
\* event, never while it awaits one), the holder can always go on to
\* release it, a call or hook invocation leaves its critical section only
\* by completing, and under fair scheduling the lock is always released
\* again, so every terminate_backend call, hook invocation and relay
\* Terminated handling that has started completes, whether or not further
\* events arrive.
C14_NoLockAcrossAwait ==
  /\ [](/\ mutex = RelayT <=> relayPc = "clear"
        /\ mutex = HookT <=> hookPc = "held"
        /\ mutex = SetupT <=> setupPc = "store"
        /\ \A t \in Callers : mutex = Cmd(t) <=> tpc[t] = "held"
        /\ mutex # Free => HolderCanRelease)
  /\ [][/\ \A t \in Callers :
             tpc[t] = "held" /\ tpc'[t] # "held" => tpc'[t] = "done"
        /\ hookPc = "held" /\ hookPc' # "held" => hookPc' = "idle"]_vars
  /\ (mutex # Free) ~> (mutex = Free)
  /\ (relayPc \in {"lock", "clear"}) ~> (relayPc = "recv")

\* C14 witness: the relay has handled Terminated and awaits an event on an
\* open, empty channel while a terminate_backend call and a hook invocation
\* have completed.
C14_Witness ==
  /\ RelayHandledTerminated
  /\ relayPc = "recv"
  /\ rx = <<>>
  /\ ~closed
  /\ mutex = Free
  /\ TerminateDone
  /\ HookDone

\* C15: once the child's stream is closed, a fairly scheduled relay task
\* handles every event still queued and then ends: it has emitted exactly
\* one notification per event; the step that ends it emits nothing and
\* touches neither the registry nor the port; and it ends only on a closed,
\* drained channel.
C15_RelayEnds ==
  /\ (closed /\ relayPc # "none")
       ~> (relayPc = "exited" /\ rx = <<>> /\ Len(notes) = Len(emitted))
  /\ [](relayPc = "exited" => (closed /\ rx = <<>> /\ Len(notes) = Len(emitted)))
  /\ [][(relayPc # "exited" /\ relayPc' = "exited")
          => (relayPc = "recv" /\ notes' = notes
              /\ UNCHANGED <<BACKEND_CHILD, BACKEND_PORT, kills, mutex>>)]_vars
  /\ [][relayPc = "exited" => (relayPc' = "exited" /\ notes' = notes)]_vars

\* C15 witness: two events, the second Terminated, were relayed and the
\* relay task has ended after the channel closed.
C15_Witness ==
  /\ relayPc = "exited"
  /\ closed
  /\ Len(emitted) = 2
  /\ Len(notes) = 2
  /\ notes[2].name = "backend-terminated"

\* C16: the stored port changes at most once per run, from the unset value,
\* in setup's first step and before any child is launched; whenever a child
\* has been launched or a handle is in the slot, the stored port is
\* non-zero: the port picked, or 8000 after a failed pick.
C16_PortWrittenOnce ==
  /\ []((spawned \/ BACKEND_CHILD = "Some") =>
          /\ BACKEND_PORT # UnsetPort
          /\ picked = "some" => BACKEND_PORT \in PortChoices
          /\ picked = "none" => BACKEND_PORT = FallbackPort
          /\ picked # "unset")
  /\ [][BACKEND_PORT' # BACKEND_PORT =>
          /\ BACKEND_PORT = UnsetPort
          /\ setupPc = "start"
          /\ setupPc' = "sidecar"
          /\ ~spawned'
          /\ BACKEND_CHILD' = "None"]_vars

\* C16 witness: a handle is in the slot and the stored port is the picked one.
C16_Witness ==
  /\ BACKEND_CHILD = "Some"
  /\ picked = "some"
  /\ BACKEND_PORT = 54321

\* C17: the relay task exists only after setup has stored the handle, so
\* whenever the relay has finished handling Terminated the slot is empty,
\* and it stays empty: no store of the handle follows the relay's clearing.
C17_StoreBeforeRelay ==
  /\ relayPc # "none" => (setupPc = "done" /\ spawned)
  /\ setupPc \in {"start", "sidecar", "spawn", "lock", "store", "relay"}
       => (relayPc = "none" /\ clearedBy = "none")
  /\ RelayHandledTerminated => (BACKEND_CHILD = "None" /\ clears = 1)

\* C17 witness: the relay has handled Terminated and it was the relay that
\* emptied the slot.
C17_Witness ==
  /\ RelayHandledTerminated
  /\ clearedBy = "relay"
  /\ BACKEND_CHILD = "None"
  /\ setupPc = "done"

Errors == {t \in Callers : tres[t] = "err"}

\* C18: a terminate_backend call returns an error only if that call took
\* the handle and its kill request failed; a call that found the slot empty
\* returned Ok(()); at most one call per run returns an error.
C18_ErrorOnlyOnFailedKill ==
  /\ \A t \in Callers : tres[t] = "err" <=> tkill[t] = "failed"
  /\ \A t \in Callers : (tpc[t] = "done" /\ tkill[t] = "none") => tres[t] = "ok"
  /\ Cardinality(Errors) <= 1

\* C18 witness: every call has returned, exactly one of them with an error.
C18_Witness ==
  /\ \A t \in Callers : tpc[t] = "done"
  /\ Cardinality(Errors) = 1
  /\ HookDone

\* C19: while the relay is about to clear the slot for a Terminated event,
\* the "backend-terminated" notification of that event is already the last
\* one emitted; so whenever the relay emptied the slot the notification had
\* been emitted; and the clearing step issues no kill request and emits
\* nothing.
C19_EmitBeforeClear ==
  /\ [](relayPc \in {"lock", "clear"} =>
          /\ Len(notes) >= 1
          /\ notes[Len(notes)].name = "backend-terminated"
          /\ emitted[Len(notes)].kind = "Terminated"
          /\ notes[Len(notes)].payload = emitted[Len(notes)].data)
  /\ [](clearedBy = "relay" =>
          \E i \in 1..Len(notes) : notes[i].name = "backend-terminated")
  /\ [][relayPc = "clear" /\ relayPc' # "clear"
          => (kills' = kills /\ notes' = notes /\ BACKEND_CHILD' = "None")]_vars

\* C19 witness: the relay emptied a slot that held the handle, after
\* emitting "backend-terminated" with exit code Some(0); no kill was issued.
C19_Witness ==
  /\ clearedBy = "relay"
  /\ relayPc = "recv"
  /\ notes[Len(notes)] = [name |-> "backend-terminated", payload |-> <<0>>]
  /\ kills = 0

====
